---- MODULE Spec2Model ----
(***************************************************************************)
(* HoneyHawk: the detection-and-alerting pipeline.                         *)
(*   alerts/logger.py            AlertLogger (the alert store)             *)
(*   monitor/file_watcher.py     CanaryFileHandler, FileWatcher            *)
(*   monitor/network_monitor.py  NetworkMonitor and its honeypot thread    *)
(* Threads are "main" (the caller of the public methods), "obs" (the       *)
(* watchdog observer thread), "ssh" (the honeypot accept thread) and "dns" *)
(* (the DNS placeholder thread); "ssh2" and "dns2" are the threads a       *)
(* second NetworkMonitor.start() creates.  Each thread has a program       *)
(* counter and a                                                           *)
(* stack of return labels; log_alert is a procedure of three steps run by  *)
(* the calling thread.                                                     *)
(***************************************************************************)
EXTENDS Integers, Sequences, FiniteSets, TLC

VARIABLES
    alertsLog,      \* lines of logs/alerts.log
    activityLog,    \* lines of logs/activity.log
    errorLog,       \* lines of logs/errors.log
    notified,       \* calls of _send_high_priority_alert, in order: alert and outcome
    diskOk,         \* whether open(log_file, 'a') / write succeeds
    result,         \* what the caller's last query call returned
    exportFile,     \* the content of export_logs' output file
    wpos,           \* wpos[t]: the file offset (in lines) thread t's write starts at
    hh_running,     \* HoneyHawk.running
    lookup,         \* how the host answers the lookups of _get_system_info
    now,            \* the wall clock, time.time(), in seconds
    pc,             \* pc[t]: the label thread t is at
    stack,          \* stack[t]: return labels of thread t
    la,             \* la[t]: the alert_entry of thread t's log_alert call
    history,        \* entries built by the caller's log_* calls, in call order
    fw_is_running,  \* FileWatcher.is_running
    obsStop,        \* the observer's stopped event (Observer.stop() was called)
    evq,            \* the observer's event queue
    cur,            \* the event the observer thread is dispatching
    nEvents,        \* raw events emitted so far
    dispatched,     \* events whose dispatch has finished, in order
    net_is_running, \* NetworkMonitor.is_running
    monitors,       \* NetworkMonitor.monitors (thread names)
    listening,      \* the honeypot socket is bound and listening
    backlog,        \* connections completed by the kernel, not yet accepted
    conn,           \* conn[c]: the state of connection c
    curConn,        \* client_socket/address of the honeypot thread (0: none)
    stopReturned,   \* stopReturned[d]: the last call on detector d was stop() and it returned
    stops,          \* stops[d]: completed stop() calls on detector d
    mainErr,        \* the exception a public method raised to its caller
    sshExit,        \* why the honeypot thread left its accept loop
    connFailures    \* banner-send and close failures so far

appVars == <<wpos, hh_running, lookup>>
ioVars  == <<diskOk, result, exportFile, appVars>>
logVars == <<alertsLog, activityLog, errorLog, notified, ioVars>>
thrVars == <<pc, stack, la>>
fwVars  == <<fw_is_running, obsStop, evq, cur, nEvents, dispatched>>
netVars == <<net_is_running, monitors, listening, backlog, conn, curConn>>
obsVars == <<stopReturned, stops, mainErr, sshExit, connFailures>>
vars    == <<logVars, thrVars, fwVars, netVars, obsVars, now, history>>

(***************************************************************************)
(* Bounds of the model.                                                    *)
(***************************************************************************)
MaxTicks  == 2      \* clock advances
MaxCalls  == 3      \* log_* calls made by the caller
MaxEvents == 2      \* raw filesystem events emitted
MaxConns  == 2      \* connection attempts to the honeypot port
MaxStops  == 2      \* stop() calls per detector
MaxHours  == 2      \* largest window passed to get_recent_alerts
MaxLines  == 3      \* lines of an alert log found at start-up
MaxOps    == 2      \* constructions, and log_* calls, on one logs directory

SecondsPerHour == 3600
TickSeconds    == SecondsPerHour \div 2

Threads   == {"main", "obs", "ssh", "dns", "ssh2", "dns2"}
Detectors == {"fw", "net"}
Conns     == 1..MaxConns
Hours     == 0..MaxHours
Severities == {"HIGH", "MEDIUM", "LOW", "UNKNOWN"}
Messages   == {"m1"}

(***************************************************************************)
(* alerts/logger.py                                                        *)
(***************************************************************************)
\* the details text: the file and event subtype of a file alert, the remote
\* address and port of a honeypot alert
\* and, in a file alert, the system info the handler puts into the text
NoInfo == [hostname |-> "", os |-> "", user |-> ""]

Details(file, event, client) ==
    [file |-> file, event |-> event, client |-> client, system |-> NoInfo]
NoDetails == Details("", "", "")

AlertEntry(severity, message, details, t) ==
    [type |-> "SECURITY_ALERT", severity |-> severity, message |-> message,
     details |-> details, epoch |-> t]

\* log_info builds no severity key; alert.get('severity', '') reads it as ''.
InfoEntry(message, t) ==
    [type |-> "INFO", severity |-> "", message |-> message,
     details |-> NoDetails, epoch |-> t]

ErrorEntry(message, t) ==
    [type |-> "ERROR", severity |-> "", message |-> message,
     details |-> NoDetails, epoch |-> t]

NoEntry == [type |-> "NONE", severity |-> "", message |-> "", details |-> NoDetails, epoch |-> 0]

\* json.dumps(entry) + '\n': one line of text holding one JSON object.
Dumps(entry) == [form |-> "object", value |-> entry]

\* json.loads(line.strip()): the object, or JSONDecodeError.
DecodeError == [type |-> "JSONDecodeError", severity |-> "", message |-> "",
                details |-> NoDetails, epoch |-> 0]
\* a line holding a JSON value that is no object (a number, a string, a
\* list, null) parses to that value, which is no dict
NotAnObject == [type |-> "NotAnObject", severity |-> "", message |-> "",
                details |-> NoDetails, epoch |-> 0]
Loads(line) ==
    IF line.form = "object" THEN line.value
    ELSE IF line.form = "scalar" THEN NotAnObject
    ELSE DecodeError

\* lines json.loads cannot parse: garbage, an empty line, a truncated record
Garbage   == [form |-> "garbage", value |-> NoEntry]
EmptyLine == [form |-> "empty", value |-> NoEntry]
Truncated == [form |-> "truncated", value |-> NoEntry]
\* a line holding a bare number, string, list or null
Scalar    == [form |-> "scalar", value |-> NoEntry]

\* the text of a record whose write was interrupted (the process was killed
\* mid-write): no closing of the object and no newline.  It can only be the
\* end of the file.
Partial == [form |-> "partial", value |-> NoEntry]

\* the line that results when json.dumps(entry) + '\n' is written right
\* behind an unterminated text: the partial text and the whole record on one
\* line, which json.loads rejects
Merged(entry) == [form |-> "merged", value |-> entry]

\* f.write(json.dumps(entry) + '\n') on a file opened with 'a': the text goes
\* to the end of the file, which starts a new line only if the file ends
\* with a newline
AppendText(log, entry) ==
    IF log # <<>> /\ log[Len(log)].form = "partial"
    THEN [log EXCEPT ![Len(log)] = Merged(entry)]
    ELSE Append(log, Dumps(entry))

\* _write_to_log: append one line; a failing write is swallowed (print only).
WriteToLogTruncBug(log, entry) == IF diskOk THEN <<Dumps(entry)>> ELSE log
WriteToLogFrontBug(log, entry) == IF diskOk THEN <<Dumps(entry)>> \o log ELSE log
WriteToLog(log, entry) == IF diskOk THEN AppendText(log, entry) ELSE log

\* what _write_to_log does with the exception of a failing open/write:
\* "swallow" (except Exception: print) or "raise" (let it reach the caller)
OnWriteFailureBug == "raise"
OnWriteFailure == "swallow"
WriteRaises == ~diskOk /\ OnWriteFailure = "raise"

\* the file log_info writes to
LogInfoTargetBug == "alerts"
LogInfoTarget == "activity"
\* the file log_error writes to
LogErrorTarget == "error"

Written(target, entry) ==
    /\ alertsLog'   = IF target = "alerts"   THEN WriteToLog(alertsLog, entry)   ELSE alertsLog
    /\ activityLog' = IF target = "activity" THEN WriteToLog(activityLog, entry) ELSE activityLog
    /\ errorLog'    = IF target = "error"    THEN WriteToLog(errorLog, entry)    ELSE errorLog

\* log_info(message): one write to the activity log
LogInfo(message) == Written(LogInfoTarget, InfoEntry(message, now))

\* log_error(message): one write to the error log
LogError(message) == Written(LogErrorTarget, ErrorEntry(message, now))

\* get_recent_alerts(hours) evaluated on the alert log at time t
CutoffTime(t, hours) == t - hours * SecondsPerHour

\* alert.get('epoch', 0) > cutoff_time
InWindowBug(epoch, cutoff) == epoch >= cutoff
InWindow(epoch, cutoff) == epoch > cutoff

RECURSIVE ScanRecent(_, _)
ScanRecent(lines, cutoff) ==
    IF lines = <<>> THEN <<>>
    ELSE LET alert == Loads(Head(lines))
             rest  == ScanRecent(Tail(lines), cutoff)
         IN  IF alert = DecodeError THEN rest
             ELSE IF InWindow(alert.epoch, cutoff) THEN <<alert>> \o rest
             ELSE rest

GetRecentAlerts(hours) == ScanRecent(alertsLog, CutoffTime(now, hours))

\* what the scans do with a line json.loads rejects: "continue" (except
\* json.JSONDecodeError: continue) or "raise"
OnDecodeErrorBug == "raise"
OnDecodeError == "continue"

\* alert.get(...) on a parsed value that is no dict raises AttributeError,
\* which the except json.JSONDecodeError clause does not catch
GetRaises(value) == value = NotAnObject

\* a scan of `lines` ends in an exception that leaves the method
ScanRaises(lines) ==
    \E i \in 1..Len(lines) :
        \/ GetRaises(Loads(lines[i]))
        \/ Loads(lines[i]) = DecodeError /\ OnDecodeError = "raise"

\* the summary dict of get_alert_summary before any line is read
NoSummary == [total_alerts |-> 0, high_severity |-> 0, medium_severity |-> 0,
              low_severity |-> 0, last_24h |-> 0, last_alert |-> NoEntry]

\* str.upper() on the severity texts that occur
Upper(text) ==
    CASE text = "high"   -> "HIGH"
      [] text = "medium" -> "MEDIUM"
      [] text = "low"    -> "LOW"
      [] OTHER           -> text

\* the counter the if/elif chain of get_alert_summary increments
SeverityCounterBug(severity) ==
    CASE Upper(severity) = "HIGH"   -> "high_severity"
      [] Upper(severity) = "MEDIUM" -> "medium_severity"
      [] OTHER                      -> "low_severity"
SeverityCounter(severity) ==
    CASE Upper(severity) = "HIGH"   -> "high_severity"
      [] Upper(severity) = "MEDIUM" -> "medium_severity"
      [] Upper(severity) = "LOW"    -> "low_severity"
      [] OTHER                      -> "none"

HoursPerDay == 24

\* the body of the loop of get_alert_summary for one parsed alert
SummaryStep(summary, alert, cutoff_24h) ==
    LET counter == SeverityCounter(alert.severity)
        bump(name) == IF counter = name THEN summary[name] + 1 ELSE summary[name]
    IN  [total_alerts    |-> summary.total_alerts + 1,
         high_severity   |-> bump("high_severity"),
         medium_severity |-> bump("medium_severity"),
         low_severity    |-> bump("low_severity"),
         last_24h        |-> IF InWindow(alert.epoch, cutoff_24h)
                             THEN summary.last_24h + 1 ELSE summary.last_24h,
         last_alert      |-> IF \/ summary.last_alert = NoEntry
                                \/ alert.epoch > summary.last_alert.epoch
                             THEN alert ELSE summary.last_alert]

RECURSIVE ScanSummary(_, _, _)
ScanSummary(lines, summary, cutoff_24h) ==
    IF lines = <<>> THEN summary
    ELSE LET alert == Loads(Head(lines))
         IN  IF alert = DecodeError
             THEN ScanSummary(Tail(lines), summary, cutoff_24h)
             ELSE ScanSummary(Tail(lines), SummaryStep(summary, alert, cutoff_24h),
                              cutoff_24h)

GetAlertSummary == ScanSummary(alertsLog, NoSummary, CutoffTime(now, HoursPerDay))

\* what a query call handed back to its caller: nothing yet, a list of alerts
\* (get_recent_alerts) or a summary dict (get_alert_summary)
NoResult == [op |-> "none", hours |-> 0, alerts |-> <<>>, summary |-> NoSummary]

\* export_logs' output file: not written, or the exported_data it dumped
NoFile == [written |-> FALSE, hours |-> 0, alerts |-> <<>>, activities |-> <<>>,
           errors |-> <<>>]

\* exported_data of export_logs(output_file, hours): the alert log and the
\* activity log are scanned; "errors" stays the empty list it was created as
ExportedData(hours) ==
    [written |-> TRUE, hours |-> hours,
     alerts |-> ScanRecent(alertsLog, CutoffTime(now, hours)),
     activities |-> ScanRecent(activityLog, CutoffTime(now, hours)),
     errors |-> <<>>]

(***************************************************************************)
(* Threads: call and return.                                               *)
(***************************************************************************)
Goto(t, label) == pc' = [pc EXCEPT ![t] = label]

\* call a procedure: continue at `label`, come back to `ret`
Call(t, label, ret) ==
    /\ pc' = [pc EXCEPT ![t] = label]
    /\ stack' = [stack EXCEPT ![t] = <<ret>> \o @]

Return(t) ==
    /\ pc' = [pc EXCEPT ![t] = Head(stack[t])]
    /\ stack' = [stack EXCEPT ![t] = Tail(@)]

\* an exception leaves a public method of the AlertLogger: the frames of the
\* call are dropped and the API caller gets the exception
Unwind(t, exc) ==
    /\ t = "main"
    /\ mainErr' = exc
    /\ Return(t)
    /\ la' = [la EXCEPT ![t] = NoEntry]

(***************************************************************************)
(* log_alert(severity, message, details), run by thread t:                 *)
(*   la_alerts   write alert_entry to the alert log                        *)
(*   la_activity write alert_entry to the activity log                     *)
(*   la_hook     if severity == "HIGH": _send_high_priority_alert          *)
(***************************************************************************)
\* the call: build alert_entry (epoch = time.time()) and enter the procedure
CallLogAlert(t, severity, message, details, ret) ==
    /\ la' = [la EXCEPT ![t] = AlertEntry(severity, message, details, now)]
    /\ Call(t, "la_alerts", ret)

LaWriteAlerts(t) ==
    /\ pc[t] = "la_alerts"
    /\ IF WriteRaises
       THEN /\ Unwind(t, "OSError")
            /\ UNCHANGED <<alertsLog, activityLog, errorLog, stopReturned, stops,
                           sshExit, connFailures>>
       ELSE /\ Written("alerts", la[t])
            /\ Goto(t, "la_activity")
            /\ UNCHANGED <<stack, la, obsVars>>
    /\ UNCHANGED <<notified, ioVars, fwVars, netVars, now, history>>

\* severity == "HIGH" decides whether the hook runs
HookWantedBug(entry) == entry.severity \in {"HIGH", "MEDIUM"}
HookWanted(entry) == entry.severity = "HIGH"

LaWriteActivity(t) ==
    /\ pc[t] = "la_activity"
    /\ IF WriteRaises
       THEN /\ Unwind(t, "OSError")
            /\ UNCHANGED <<alertsLog, activityLog, errorLog, stopReturned, stops,
                           sshExit, connFailures>>
       ELSE /\ Written("activity", la[t])
            /\ IF HookWanted(la[t])
               THEN Goto(t, "la_hook") /\ UNCHANGED <<stack, la>>
               ELSE Return(t) /\ la' = [la EXCEPT ![t] = NoEntry]
            /\ UNCHANGED obsVars
    /\ UNCHANGED <<notified, ioVars, fwVars, netVars, now, history>>

\* one call of the hook: the alert it was given and how it ended
Hooked(alert, outcome) == [alert |-> alert, outcome |-> outcome]

\* _send_high_priority_alert: console banner, then _send_system_notification
LaHook(t) ==
    /\ pc[t] = "la_hook"
    /\ notified' = Append(notified, Hooked(la[t], "ok"))
    /\ Return(t)
    /\ la' = [la EXCEPT ![t] = NoEntry]
    /\ UNCHANGED <<alertsLog, activityLog, errorLog, ioVars, fwVars, netVars,
                   obsVars, now, history>>

LogAlertStep(t) == LaWriteAlerts(t) \/ LaWriteActivity(t) \/ LaHook(t)

\* open(log_file, 'a') on a platform whose append mode is a seek to the end
\* of the file followed by a write at that offset (the C runtime of Windows,
\* one of the platforms _send_system_notification names): the two are
\* separate steps, and _write_to_log holds no lock across them
LaSeekAlerts(t) ==
    /\ pc[t] = "la_alerts"
    /\ diskOk
    /\ wpos' = [wpos EXCEPT ![t] = Len(alertsLog)]
    /\ Goto(t, "la_alerts_put")
    /\ UNCHANGED <<alertsLog, activityLog, errorLog, notified, diskOk, result,
                   exportFile, hh_running, lookup, stack, la, fwVars, netVars, obsVars,
                   now, history>>

\* the write at the offset found: past the end it appends, before the end
\* it lands on the record another writer has put there meanwhile
WriteAt(log, pos, entry) ==
    IF pos >= Len(log) THEN Append(log, Dumps(entry))
    ELSE [log EXCEPT ![pos + 1] = Dumps(entry)]

LaPutAlerts(t) ==
    /\ pc[t] = "la_alerts_put"
    /\ alertsLog' = WriteAt(alertsLog, wpos[t], la[t])
    /\ Goto(t, "la_activity")
    /\ UNCHANGED <<activityLog, errorLog, notified, ioVars, stack, la, fwVars,
                   netVars, obsVars, now, history>>

\* a print of the console banner raises (stdout closed, a message the
\* console encoding cannot encode): nothing catches it in
\* _send_high_priority_alert or in log_alert
LaHookConsoleRaises(t) ==
    /\ pc[t] = "la_hook"
    /\ notified' = Append(notified, Hooked(la[t], "console_raised"))
    /\ Unwind(t, "OSError")
    /\ UNCHANGED <<alertsLog, activityLog, errorLog, ioVars, fwVars, netVars,
                   stopReturned, stops, sshExit, connFailures, now, history>>

\* platform.system() or os.system() raises inside the try of
\* _send_system_notification: log_error, then a normal return
NotificationMessage == "Failed to send system notification"

LaHookNotifyRaises(t) ==
    /\ pc[t] = "la_hook"
    /\ notified' = Append(notified, Hooked(la[t], "notify_raised"))
    /\ LogError(NotificationMessage)
    /\ Return(t)
    /\ la' = [la EXCEPT ![t] = NoEntry]
    /\ UNCHANGED <<ioVars, fwVars, netVars, obsVars, now, history>>

\* the notification command fails (notify-send or osascript missing, no
\* display): os.system returns its nonzero status, which nothing reads
LaHookCommandFails(t) ==
    /\ pc[t] = "la_hook"
    /\ notified' = Append(notified, Hooked(la[t], "command_failed"))
    /\ Return(t)
    /\ la' = [la EXCEPT ![t] = NoEntry]
    /\ UNCHANGED <<alertsLog, activityLog, errorLog, ioVars, fwVars, netVars,
                   obsVars, now, history>>

(***************************************************************************)
(* The clock.                                                              *)
(***************************************************************************)
Tick ==
    /\ now < MaxTicks * TickSeconds
    /\ now' = now + TickSeconds
    /\ UNCHANGED <<logVars, thrVars, fwVars, netVars, obsVars, history>>

(***************************************************************************)
(* The caller of the AlertLogger API (thread "main").                      *)
(***************************************************************************)
ApiLogAlert(severity, message) ==
    /\ pc["main"] = "idle"
    /\ Len(history) < MaxCalls
    /\ history' = Append(history, AlertEntry(severity, message, NoDetails, now))
    /\ CallLogAlert("main", severity, message, NoDetails, "idle")
    /\ UNCHANGED <<logVars, fwVars, netVars, obsVars, now>>

ApiLogInfo(message) ==
    /\ pc["main"] = "idle"
    /\ Len(history) < MaxCalls
    /\ history' = Append(history, InfoEntry(message, now))
    /\ IF WriteRaises
       THEN /\ mainErr' = "OSError"
            /\ UNCHANGED <<alertsLog, activityLog, errorLog, stopReturned, stops,
                           sshExit, connFailures>>
       ELSE LogInfo(message) /\ UNCHANGED obsVars
    /\ UNCHANGED <<notified, ioVars, thrVars, fwVars, netVars, now>>

ApiLogError(message) ==
    /\ pc["main"] = "idle"
    /\ Len(history) < MaxCalls
    /\ history' = Append(history, ErrorEntry(message, now))
    /\ IF WriteRaises
       THEN /\ mainErr' = "OSError"
            /\ UNCHANGED <<alertsLog, activityLog, errorLog, stopReturned, stops,
                           sshExit, connFailures>>
       ELSE LogError(message) /\ UNCHANGED obsVars
    /\ UNCHANGED <<notified, ioVars, thrVars, fwVars, netVars, now>>

\* AlertLogger(logs_dir) on a directory that holds the logs already: mkdir
\* with exist_ok, no touch of a file that exists, log_info("AlertLogger
\* initialized")
InitMessage == "AlertLogger initialized"
Constructions ==
    Len(SelectSeq(activityLog, LAMBDA line : Loads(line).message = InitMessage))

ApiConstruct ==
    /\ pc["main"] = "idle"
    /\ Constructions < MaxOps
    /\ IF WriteRaises
       THEN /\ mainErr' = "OSError"
            /\ UNCHANGED <<alertsLog, activityLog, errorLog, stopReturned, stops,
                           sshExit, connFailures>>
       ELSE LogInfo(InitMessage) /\ UNCHANGED obsVars
    /\ UNCHANGED <<notified, ioVars, thrVars, fwVars, netVars, now, history>>

\* get_recent_alerts(hours)
ApiGetRecentAlerts(hours) ==
    /\ pc["main"] = "idle"
    /\ IF ScanRaises(alertsLog)
       THEN mainErr' = "AttributeError" /\ UNCHANGED result
       ELSE /\ result' = [op |-> "recent", hours |-> hours,
                          alerts |-> GetRecentAlerts(hours), summary |-> NoSummary]
            /\ UNCHANGED mainErr
    /\ UNCHANGED <<alertsLog, activityLog, errorLog, notified, diskOk, exportFile, appVars,
                   thrVars, fwVars, netVars, stopReturned, stops, sshExit,
                   connFailures, now, history>>

\* get_alert_summary()
ApiGetAlertSummary ==
    /\ pc["main"] = "idle"
    /\ IF ScanRaises(alertsLog)
       THEN mainErr' = "AttributeError" /\ UNCHANGED result
       ELSE /\ result' = [op |-> "summary", hours |-> HoursPerDay,
                          alerts |-> <<>>, summary |-> GetAlertSummary]
            /\ UNCHANGED mainErr
    /\ UNCHANGED <<alertsLog, activityLog, errorLog, notified, diskOk, exportFile, appVars,
                   thrVars, fwVars, netVars, stopReturned, stops, sshExit,
                   connFailures, now, history>>

\* export_logs(output_file, hours): scan both logs, dump exported_data to a
\* new output file, log_info("Exported logs to ...")
ExportMessage == "Exported logs"

ApiExportLogs(hours) ==
    /\ pc["main"] = "idle"
    /\ ~exportFile.written
    /\ IF ScanRaises(alertsLog) \/ ScanRaises(activityLog)
       THEN /\ mainErr' = "AttributeError"
            /\ UNCHANGED <<alertsLog, activityLog, errorLog, exportFile>>
       ELSE /\ exportFile' = ExportedData(hours)
            /\ LogInfo(ExportMessage)
            /\ UNCHANGED mainErr
    /\ UNCHANGED <<notified, diskOk, result, appVars, thrVars, fwVars, netVars, stopReturned,
                   stops, sshExit, connFailures, now, history>>

(***************************************************************************)
(* The disk: open(log_file, 'a') and write start and stop failing (full    *)
(* disk, logs directory made unwritable).                                  *)
(***************************************************************************)
DiskFails ==
    /\ diskOk
    /\ diskOk' = FALSE
    /\ UNCHANGED <<alertsLog, activityLog, errorLog, notified, result, exportFile, appVars,
                   thrVars, fwVars, netVars, obsVars, now, history>>

DiskRecovers ==
    /\ ~diskOk
    /\ diskOk' = TRUE
    /\ UNCHANGED <<alertsLog, activityLog, errorLog, notified, result, exportFile, appVars,
                   thrVars, fwVars, netVars, obsVars, now, history>>

(***************************************************************************)
(* monitor/file_watcher.py: CanaryFileHandler                              *)
(***************************************************************************)
FilePath == "tokens/.env"
DirPath  == "tokens/.aws"

\* the raw events the observer delivers: watchdog's subtypes
EventTypes == {"opened", "modified", "moved", "deleted", "created"}

Event(etype, isdir) ==
    [event_type |-> etype, is_directory |-> isdir,
     src_path |-> IF isdir THEN DirPath ELSE FilePath]
NoEvent == [event_type |-> "", is_directory |-> FALSE, src_path |-> ""]

AccessMessage       == "CANARY TRIGGERED - File Access Detected!"
ModificationMessage == "Canary File Modified"

\* on_any_event: "access", "modification" or "none" (returns without alerting)
OnAnyEventClassBug(event) ==
    IF event.event_type \in {"opened", "accessed"} THEN "access"
    ELSE IF event.event_type \in {"modified", "moved", "deleted"} THEN "modification"
    ELSE "none"
OnAnyEventClass(event) ==
    IF event.is_directory THEN "none"
    ELSE IF event.event_type \in {"opened", "accessed"} THEN "access"
    ELSE IF event.event_type \in {"modified", "moved", "deleted"} THEN "modification"
    ELSE "none"

\* the subtype callback dispatch() calls after on_any_event: on_opened,
\* on_modified, on_moved, on_deleted; on_created is the base class's no-op
SubtypeClass(event) ==
    IF event.is_directory THEN "none"
    ELSE IF event.event_type = "opened" THEN "access"
    ELSE IF event.event_type \in {"modified", "moved", "deleted"} THEN "modification"
    ELSE "none"

\* _handle_file_access logs HIGH, _handle_file_modification logs MEDIUM
AccessSeverity       == "HIGH"
ModificationSeverity == "MEDIUM"

\* _get_system_info: the values of a host on which every lookup answers
SystemInfo == [hostname |-> "host1", os |-> "Linux 6.1", user |-> "analyst"]
\* the dict of the except branch
UnknownInfo == [hostname |-> "unknown", os |-> "unknown", user |-> "unknown"]

\* how the lookups answer: "ok"; "no_user" (neither USER nor USERNAME is
\* set: os.getenv returns None); "raises" (socket.gethostname() or a
\* platform call raises)
Lookups == {"ok", "no_user", "raises"}

\* what _get_system_info does when a lookup raises: "unknown" (except
\* Exception: return the dict of "unknown"s) or "raise"
OnLookupFailureBug == "raise"
OnLookupFailure == "unknown"

GetSystemInfo ==
    IF lookup = "raises" THEN UnknownInfo
    ELSE IF lookup = "no_user" THEN [SystemInfo EXCEPT !.user = "unknown"]
    ELSE SystemInfo

\* the handler's text: _handle_file_access prints hostname, os and user,
\* _handle_file_modification the hostname only
FileDetails(class, event, info) ==
    [Details(event.src_path, event.event_type, "") EXCEPT !.system =
        IF class = "access" THEN info ELSE [NoInfo EXCEPT !.hostname = info.hostname]]

\* run the handler of class `class` on thread t for `event`, then go to `ret`;
\* an exception leaving the callback ends the observer thread
Handle(t, class, event, ret) ==
    IF class = "none"
    THEN Goto(t, ret) /\ UNCHANGED <<stack, la>>
    ELSE IF lookup = "raises" /\ OnLookupFailure = "raise"
    THEN Goto(t, "done") /\ UNCHANGED <<stack, la>>
    ELSE IF class = "access"
    THEN CallLogAlert(t, AccessSeverity, AccessMessage,
                      FileDetails(class, event, GetSystemInfo), ret)
    ELSE CallLogAlert(t, ModificationSeverity, ModificationMessage,
                      FileDetails(class, event, GetSystemInfo), ret)

(***************************************************************************)
(* The watchdog observer: the filesystem emits raw events into the queue   *)
(* while the watch is installed; the observer thread takes one event at a  *)
(* time and runs handler.dispatch(event): on_any_event, then the subtype   *)
(* callback.  After Observer.stop() the thread takes no further event and  *)
(* exits.                                                                  *)
(***************************************************************************)
ObserverAlive == pc["obs"] \notin {"init", "done"}

FsEvent(etype, isdir) ==
    /\ ObserverAlive
    /\ ~obsStop
    /\ nEvents < MaxEvents
    /\ nEvents' = nEvents + 1
    /\ evq' = Append(evq, Event(etype, isdir))
    /\ UNCHANGED <<logVars, thrVars, fw_is_running, obsStop, cur, dispatched,
                   netVars, obsVars, now, history>>

ObsTake ==
    /\ pc["obs"] = "idle"
    /\ ~obsStop
    /\ evq # <<>>
    /\ cur' = Head(evq)
    /\ evq' = Tail(evq)
    /\ Goto("obs", "on_any_event")
    /\ UNCHANGED <<logVars, stack, la, fw_is_running, obsStop, nEvents, dispatched,
                   netVars, obsVars, now, history>>

ObsExit ==
    /\ pc["obs"] = "idle"
    /\ obsStop
    /\ Goto("obs", "done")
    /\ UNCHANGED <<logVars, stack, la, fwVars, netVars, obsVars, now, history>>

ObsOnAnyEvent ==
    /\ pc["obs"] = "on_any_event"
    /\ Handle("obs", OnAnyEventClass(cur), cur, "on_subtype")
    /\ UNCHANGED <<logVars, fwVars, netVars, obsVars, now, history>>

ObsOnSubtype ==
    /\ pc["obs"] = "on_subtype"
    /\ Handle("obs", SubtypeClass(cur), cur, "dispatched")
    /\ UNCHANGED <<logVars, fwVars, netVars, obsVars, now, history>>

ObsDispatched ==
    /\ pc["obs"] = "dispatched"
    /\ dispatched' = Append(dispatched, cur)
    /\ cur' = NoEvent
    /\ Goto("obs", "idle")
    /\ UNCHANGED <<logVars, stack, la, fw_is_running, obsStop, evq, nEvents,
                   netVars, obsVars, now, history>>

ObserverStep ==
    \/ ObsTake
    \/ ObsExit
    \/ ObsOnAnyEvent
    \/ ObsOnSubtype
    \/ ObsDispatched
    \/ LogAlertStep("obs")

(***************************************************************************)
(* monitor/file_watcher.py: FileWatcher.start, stop, is_alive              *)
(***************************************************************************)
\* a public method returns to its caller
ReturnFromStop(d) ==
    /\ Return("main")
    /\ stopReturned' = [stopReturned EXCEPT ![d] = TRUE]
    /\ stops' = [stops EXCEPT ![d] = @ + 1]

\* mkdir, observer.schedule(...), observer.start()
FwStartObserver ==
    /\ pc["main"] = "fw_start"
    /\ pc' = [pc EXCEPT !["main"] = "fw_start_flag", !["obs"] = "idle"]
    /\ UNCHANGED <<logVars, stack, la, fwVars, netVars, obsVars, now, history>>

\* mkdir, observer.schedule(...) or observer.start() raises (the directory
\* cannot be created, the watch cannot be installed): FileWatcher.start has
\* no handler and neither has HoneyHawk.start, so every frame of the caller
\* is dropped and the exception reaches the top of the main thread
FwStartFails ==
    /\ pc["main"] = "fw_start"
    /\ mainErr' = "OSError"
    /\ pc' = [pc EXCEPT !["main"] = "idle"]
    /\ stack' = [stack EXCEPT !["main"] = <<>>]
    /\ UNCHANGED <<logVars, la, fwVars, netVars, stopReturned, stops, sshExit,
                   connFailures, now, history>>

\* self.is_running = True
FwStartFlag ==
    /\ pc["main"] = "fw_start_flag"
    /\ fw_is_running' = TRUE
    /\ Goto("main", "fw_start_log")
    /\ UNCHANGED <<logVars, stack, la, obsStop, evq, cur, nEvents, dispatched,
                   netVars, obsVars, now, history>>

\* log_info("File watcher started monitoring: ..."), return
FwStartLog ==
    /\ pc["main"] = "fw_start_log"
    /\ LogInfo("File watcher started")
    /\ Return("main")
    /\ UNCHANGED <<notified, ioVars, la, fwVars, netVars, obsVars, now, history>>

\* if self.is_running:
FwStopGuardBug == TRUE
FwStopGuard == fw_is_running

FwStopCheck ==
    /\ pc["main"] = "fw_stop"
    /\ IF FwStopGuard
       THEN Goto("main", "fw_stop_observer") /\ UNCHANGED <<stack, obsVars>>
       ELSE ReturnFromStop("fw") /\ UNCHANGED <<mainErr, sshExit, connFailures>>
    /\ UNCHANGED <<logVars, la, fwVars, netVars, now, history>>

\* self.observer.stop(): set the stopped event
FwStopObserverBug ==
    /\ pc["main"] = "fw_stop_observer"
    /\ obsStop' = TRUE
    /\ Goto("main", "fw_stop_flag")
    /\ UNCHANGED <<logVars, stack, la, fw_is_running, evq, cur, nEvents, dispatched,
                   netVars, obsVars, now, history>>
FwStopObserver ==
    /\ pc["main"] = "fw_stop_observer"
    /\ obsStop' = TRUE
    /\ Goto("main", "fw_stop_join")
    /\ UNCHANGED <<logVars, stack, la, fw_is_running, evq, cur, nEvents, dispatched,
                   netVars, obsVars, now, history>>

\* self.observer.join(): RuntimeError on a thread that was never started,
\* otherwise block until the observer thread has ended
FwStopJoin ==
    /\ pc["main"] = "fw_stop_join"
    /\ IF pc["obs"] = "init"
       THEN /\ mainErr' = "RuntimeError"
            /\ ReturnFromStop("fw")
            /\ UNCHANGED <<sshExit, connFailures>>
       ELSE /\ pc["obs"] = "done"
            /\ Goto("main", "fw_stop_flag")
            /\ UNCHANGED <<stack, obsVars>>
    /\ UNCHANGED <<logVars, la, fwVars, netVars, now, history>>

\* self.is_running = False
FwStopFlag ==
    /\ pc["main"] = "fw_stop_flag"
    /\ fw_is_running' = FALSE
    /\ Goto("main", "fw_stop_log")
    /\ UNCHANGED <<logVars, stack, la, obsStop, evq, cur, nEvents, dispatched,
                   netVars, obsVars, now, history>>

\* log_info("File watcher stopped"), return
FwStopLog ==
    /\ pc["main"] = "fw_stop_log"
    /\ LogInfo("File watcher stopped")
    /\ ReturnFromStop("fw")
    /\ UNCHANGED <<notified, ioVars, la, fwVars, netVars, mainErr, sshExit,
                   connFailures, now, history>>

FileWatcherStep ==
    \/ FwStartObserver
    \/ FwStartFlag
    \/ FwStartLog
    \/ FwStopCheck
    \/ FwStopObserver
    \/ FwStopJoin
    \/ FwStopFlag
    \/ FwStopLog

\* is_alive(): self.observer.is_alive() if self.is_running else False
IsAlive == IF fw_is_running THEN ObserverAlive ELSE FALSE

\* the caller starts the watcher (once: an observer thread starts once)
ApiFwStart ==
    /\ pc["main"] = "idle"
    /\ pc["obs"] = "init"
    /\ ~obsStop
    /\ Call("main", "fw_start", "idle")
    /\ stopReturned' = [stopReturned EXCEPT !["fw"] = FALSE]
    /\ UNCHANGED <<logVars, la, fwVars, netVars, stops, mainErr, sshExit,
                   connFailures, now, history>>

ApiFwStop ==
    /\ pc["main"] = "idle"
    /\ stops["fw"] < MaxStops
    /\ Call("main", "fw_stop", "idle")
    /\ UNCHANGED <<logVars, la, fwVars, netVars, obsVars, now, history>>

(***************************************************************************)
(* monitor/network_monitor.py: NetworkMonitor.start, stop                  *)
(***************************************************************************)
\* self.is_running = True
NetStartFlag ==
    /\ pc["main"] = "net_start"
    /\ net_is_running' = TRUE
    /\ Goto("main", "net_start_ssh")
    /\ UNCHANGED <<logVars, stack, la, fwVars, monitors, listening, backlog, conn,
                   curConn, obsVars, now, history>>

\* _start_fake_ssh_server: ssh_thread.start(); self.monitors.append(ssh_thread)
NetStartSsh ==
    /\ pc["main"] = "net_start_ssh"
    /\ pc' = [pc EXCEPT !["main"] = "net_start_dns", !["ssh"] = "bind"]
    /\ monitors' = Append(monitors, "ssh")
    /\ UNCHANGED <<logVars, stack, la, fwVars, net_is_running, listening, backlog,
                   conn, curConn, obsVars, now, history>>

\* _start_dns_monitor: dns_thread.start(); self.monitors.append(dns_thread)
NetStartDns ==
    /\ pc["main"] = "net_start_dns"
    /\ pc' = [pc EXCEPT !["main"] = "net_start_log", !["dns"] = "start"]
    /\ monitors' = Append(monitors, "dns")
    /\ UNCHANGED <<logVars, stack, la, fwVars, net_is_running, listening, backlog,
                   conn, curConn, obsVars, now, history>>

\* log_info("Network monitoring started"), return
NetStartLog ==
    /\ pc["main"] = "net_start_log"
    /\ LogInfo("Network monitoring started")
    /\ Return("main")
    /\ UNCHANGED <<notified, ioVars, la, fwVars, netVars, obsVars, now, history>>

\* self.is_running = False
NetStopFlag ==
    /\ pc["main"] = "net_stop"
    /\ net_is_running' = FALSE
    /\ Goto("main", "net_stop_monitors")
    /\ UNCHANGED <<logVars, stack, la, fwVars, monitors, listening, backlog, conn,
                   curConn, obsVars, now, history>>

\* hasattr(monitor, 'stop'): the monitors are threading.Thread objects, which
\* have no stop attribute
HasStopAttr(monitor) == FALSE

\* for monitor in self.monitors: if hasattr(monitor, 'stop'): monitor.stop()
\* No monitor has the attribute, so the loop calls nothing and waits for nothing.
NetStopMonitors ==
    /\ pc["main"] = "net_stop_monitors"
    /\ \A i \in 1..Len(monitors) : ~HasStopAttr(monitors[i])
    /\ Goto("main", "net_stop_log")
    /\ UNCHANGED <<logVars, stack, la, fwVars, netVars, obsVars, now, history>>

\* log_info("Network monitoring stopped"), return
NetStopLog ==
    /\ pc["main"] = "net_stop_log"
    /\ LogInfo("Network monitoring stopped")
    /\ ReturnFromStop("net")
    /\ UNCHANGED <<notified, ioVars, la, fwVars, netVars, mainErr, sshExit,
                   connFailures, now, history>>

NetworkMonitorStep ==
    \/ NetStartFlag
    \/ NetStartSsh
    \/ NetStartDns
    \/ NetStartLog
    \/ NetStopFlag
    \/ NetStopMonitors
    \/ NetStopLog

\* the caller starts the network monitor (once per NetworkMonitor, as main.py does)
ApiNetStart ==
    /\ pc["main"] = "idle"
    /\ pc["ssh"] = "init"
    /\ Call("main", "net_start", "idle")
    /\ stopReturned' = [stopReturned EXCEPT !["net"] = FALSE]
    /\ UNCHANGED <<logVars, la, fwVars, netVars, stops, mainErr, sshExit,
                   connFailures, now, history>>

ApiNetStop ==
    /\ pc["main"] = "idle"
    /\ stops["net"] < MaxStops
    /\ Call("main", "net_stop", "idle")
    /\ UNCHANGED <<logVars, la, fwVars, netVars, obsVars, now, history>>

(***************************************************************************)
(* monitor/network_monitor.py: ssh_honeypot, the accept thread             *)
(***************************************************************************)
\* the remote address and port of connection c
Addr(c) == <<"127.0.0.1:40001", "127.0.0.1:40002", "127.0.0.1:40003",
             "127.0.0.1:40004">>[c]

SshMessage == "CANARY TRIGGERED - SSH Connection Attempt!"
SshSeverityBug == "MEDIUM"
SshSeverity == "HIGH"

\* a client connects: the kernel completes the handshake on the listening
\* socket and queues the connection (connection c is the c-th attempt)
ClientConnect(c) ==
    /\ listening
    /\ conn[c].sock = "new"
    /\ \A d \in Conns : d < c => conn[d].sock # "new"
    /\ conn' = [conn EXCEPT ![c].sock = "queued"]
    /\ backlog' = Append(backlog, c)
    /\ UNCHANGED <<logVars, thrVars, fwVars, net_is_running, monitors, listening,
                   curConn, obsVars, now, history>>

\* socket(), setsockopt, settimeout(1.0), bind, listen(5), log_info(...)
SshBindOk ==
    /\ pc["ssh"] = "bind"
    /\ listening' = TRUE
    /\ LogInfo("Fake SSH server started on localhost:2222")
    /\ Goto("ssh", "loop")
    /\ UNCHANGED <<notified, ioVars, stack, la, fwVars, net_is_running, monitors,
                   backlog, conn, curConn, obsVars, now, history>>

\* bind raises (the port is taken): the outer handler logs the error, the
\* thread ends
BindErrorMessage == "Failed to start SSH honeypot"

SshBindFailBug ==
    /\ pc["ssh"] = "bind"
    /\ sshExit' = "bind_error"
    /\ Goto("ssh", "done")
    /\ UNCHANGED <<logVars, stack, la, fwVars, netVars, stopReturned, stops, mainErr,
                   connFailures, now, history>>
SshBindFail ==
    /\ pc["ssh"] = "bind"
    /\ LogError(BindErrorMessage)
    /\ sshExit' = "bind_error"
    /\ Goto("ssh", "done")
    /\ UNCHANGED <<notified, ioVars, stack, la, fwVars, netVars, stopReturned,
                   stops, mainErr, connFailures, now, history>>

\* while self.is_running:
SshLoop ==
    /\ pc["ssh"] = "loop"
    /\ IF net_is_running
       THEN Goto("ssh", "accept") /\ UNCHANGED sshExit
       ELSE Goto("ssh", "close_listen") /\ sshExit' = "stopped"
    /\ UNCHANGED <<logVars, stack, la, fwVars, netVars, stopReturned, stops,
                   mainErr, connFailures, now, history>>

\* sock.accept() raises socket.timeout after one second without a connection
\* (sock.settimeout(1.0)); without the timeout accept() blocks until a client
\* connects
SshAcceptTimeoutBug ==
    /\ pc["ssh"] = "accept"
    /\ FALSE
    /\ UNCHANGED vars
SshAcceptTimeout ==
    /\ pc["ssh"] = "accept"
    /\ backlog = <<>>
    /\ Goto("ssh", "loop")
    /\ UNCHANGED <<logVars, stack, la, fwVars, netVars, obsVars, now, history>>

\* client_socket, address = sock.accept(); log_alert("HIGH", ...)
SshAccept ==
    /\ pc["ssh"] = "accept"
    /\ backlog # <<>>
    /\ LET c == Head(backlog) IN
        /\ backlog' = Tail(backlog)
        /\ conn' = [conn EXCEPT ![c].sock = "open"]
        /\ curConn' = c
        /\ CallLogAlert("ssh", SshSeverity, SshMessage, Details("", "", Addr(c)), "send")
    /\ UNCHANGED <<logVars, fwVars, net_is_running, monitors, listening, obsVars,
                   now, history>>

\* sock.accept() raises another exception: log_error if still running, break
SshAcceptError ==
    /\ pc["ssh"] = "accept"
    /\ IF net_is_running
       THEN LogError("SSH honeypot error")
       ELSE UNCHANGED <<alertsLog, activityLog, errorLog>>
    /\ sshExit' = "accept_error"
    /\ Goto("ssh", "close_listen")
    /\ UNCHANGED <<notified, ioVars, stack, la, fwVars, netVars, stopReturned,
                   stops, mainErr, connFailures, now, history>>

\* the inner handler of the banner step, "except: pass": where the thread
\* continues and whether the failure is logged
OnConnFailureBug == [next |-> "close_listen", logged |-> TRUE]
OnConnFailure == [next |-> "loop", logged |-> FALSE]

ConnFailure ==
    /\ connFailures' = connFailures + 1
    /\ IF OnConnFailure.logged
       THEN LogError("SSH honeypot error")
       ELSE UNCHANGED <<alertsLog, activityLog, errorLog>>
    /\ sshExit' = IF OnConnFailure.next = "loop" THEN sshExit ELSE "conn_error"
    /\ Goto("ssh", OnConnFailure.next)

\* client_socket.send(banner) succeeds
SshSendOk ==
    /\ pc["ssh"] = "send"
    /\ conn' = [conn EXCEPT ![curConn].banner = TRUE]
    /\ Goto("ssh", "close")
    /\ UNCHANGED <<logVars, stack, la, fwVars, net_is_running, monitors, listening,
                   backlog, curConn, obsVars, now, history>>

\* client_socket.send(banner) raises: sleep and close are skipped
SshSendFail ==
    /\ pc["ssh"] = "send"
    /\ ConnFailure
    /\ UNCHANGED <<notified, ioVars, stack, la, fwVars, netVars, stopReturned,
                   stops, mainErr, now, history>>

\* time.sleep(2); client_socket.close() succeeds
SshCloseOk ==
    /\ pc["ssh"] = "close"
    /\ conn' = [conn EXCEPT ![curConn].sock = "closed"]
    /\ Goto("ssh", "loop")
    /\ UNCHANGED <<logVars, stack, la, fwVars, net_is_running, monitors, listening,
                   backlog, curConn, obsVars, now, history>>

\* client_socket.close() raises; the descriptor is released all the same
SshCloseFail ==
    /\ pc["ssh"] = "close"
    /\ conn' = [conn EXCEPT ![curConn].sock = "closed"]
    /\ ConnFailure
    /\ UNCHANGED <<notified, ioVars, stack, la, fwVars, net_is_running, monitors,
                   listening, backlog, curConn, stopReturned, stops, mainErr, now,
                   history>>

\* sock.close(): the port is released, queued connections are reset
SshCloseListen ==
    /\ pc["ssh"] = "close_listen"
    /\ listening' = FALSE
    /\ backlog' = <<>>
    /\ conn' = [c \in Conns |->
                  IF conn[c].sock = "queued" THEN [conn[c] EXCEPT !.sock = "reset"]
                  ELSE conn[c]]
    /\ Goto("ssh", "done")
    /\ UNCHANGED <<logVars, stack, la, fwVars, net_is_running, monitors, curConn,
                   obsVars, now, history>>

SshStep ==
    \/ SshBindOk
    \/ SshBindFail
    \/ SshLoop
    \/ SshAcceptTimeout
    \/ SshAccept
    \/ SshAcceptError
    \/ SshSendOk
    \/ SshSendFail
    \/ SshCloseOk
    \/ SshCloseFail
    \/ SshCloseListen
    \/ LogAlertStep("ssh")

(***************************************************************************)
(* monitor/network_monitor.py: dns_monitor, the placeholder thread         *)
(***************************************************************************)
DnsStart ==
    /\ pc["dns"] = "start"
    /\ LogInfo("DNS monitoring placeholder started")
    /\ Goto("dns", "loop")
    /\ UNCHANGED <<notified, ioVars, stack, la, fwVars, netVars, obsVars, now, history>>

\* while self.is_running: time.sleep(10)
DnsLoop ==
    /\ pc["dns"] = "loop"
    /\ ~net_is_running
    /\ Goto("dns", "done")
    /\ UNCHANGED <<logVars, stack, la, fwVars, netVars, obsVars, now, history>>

DnsStep == DnsStart \/ DnsLoop

(***************************************************************************)
(* Initial state: a fresh logs directory after AlertLogger.__init__, which *)
(* touches the three files and logs "AlertLogger initialized".             *)
(***************************************************************************)
InitProgram ==
    /\ activityLog = <<Dumps(InfoEntry(InitMessage, 0))>>
    /\ errorLog = <<>>
    /\ notified = <<>>
    /\ diskOk = TRUE
    /\ result = NoResult
    /\ exportFile = NoFile
    /\ wpos = [t \in Threads |-> 0]
    /\ hh_running = FALSE
    /\ lookup = "ok"
    /\ pc = [t \in Threads |-> IF t = "main" THEN "idle" ELSE "init"]
    /\ stack = [t \in Threads |-> <<>>]
    /\ la = [t \in Threads |-> NoEntry]
    /\ history = <<>>
    /\ fw_is_running = FALSE
    /\ obsStop = FALSE
    /\ evq = <<>>
    /\ cur = NoEvent
    /\ nEvents = 0
    /\ dispatched = <<>>
    /\ net_is_running = FALSE
    /\ monitors = <<>>
    /\ listening = FALSE
    /\ backlog = <<>>
    /\ conn = [c \in Conns |-> [sock |-> "new", banner |-> FALSE]]
    /\ curConn = 0
    /\ stopReturned = [d \in Detectors |-> FALSE]
    /\ stops = [d \in Detectors |-> 0]
    /\ mainErr = "none"
    /\ sshExit = "none"
    /\ connFailures = 0

Init ==
    /\ alertsLog = <<>>
    /\ now = 0
    /\ InitProgram

(***************************************************************************)
(* SpecLog: one caller using the AlertLogger API while the clock runs.     *)
(***************************************************************************)
NextLog ==
    \/ \E s \in Severities, m \in Messages : ApiLogAlert(s, m)
    \/ \E m \in Messages : ApiLogInfo(m)
    \/ \E m \in Messages : ApiLogError(m)
    \/ LogAlertStep("main")
    \/ Tick

SpecLog == Init /\ [][NextLog]_vars

(***************************************************************************)
(* C1: with no log_* call in progress, get_recent_alerts with a window     *)
(* that covers every stored epoch returns exactly the entries built by the *)
(* caller's log_alert calls (type SECURITY_ALERT), none of the INFO or     *)
(* ERROR entries, in call order.                                           *)
(***************************************************************************)
IsAlert(e) == e.type = "SECURITY_ALERT"

WindowCovers(hours) ==
    \A i \in 1..Len(history) : history[i].epoch > CutoffTime(now, hours)

C1_RecentAlertsAreTheAlerts ==
    pc["main"] = "idle" =>
        \A h \in Hours :
            WindowCovers(h) => GetRecentAlerts(h) = SelectSeq(history, IsAlert)

C1_Witness ==
    /\ pc["main"] = "idle"
    /\ Len(history) = 3
    /\ history[1].type = "SECURITY_ALERT"
    /\ history[2].type = "INFO"
    /\ history[3].type = "SECURITY_ALERT"
    /\ history[1] # history[3]
    /\ \E h \in Hours : WindowCovers(h) /\ Len(GetRecentAlerts(h)) = 2

(***************************************************************************)
(* SpecFW: the file watcher is started and stopped by its caller while the *)
(* filesystem emits events and the observer thread dispatches them.        *)
(***************************************************************************)
NextFW ==
    \/ ApiFwStart
    \/ ApiFwStop
    \/ FileWatcherStep
    \/ \E e \in EventTypes, d \in BOOLEAN : FsEvent(e, d)
    \/ ObserverStep

SpecFW == Init /\ [][NextFW]_vars

(***************************************************************************)
(* SpecNet: the network monitor is started and stopped by its caller while *)
(* clients connect to the honeypot port.                                   *)
(***************************************************************************)
NextNet ==
    \/ ApiNetStart
    \/ ApiNetStop
    \/ NetworkMonitorStep
    \/ \E c \in Conns : ClientConnect(c)
    \/ SshStep
    \/ DnsStep

SpecNet == Init /\ [][NextNet]_vars

(***************************************************************************)
(* SpecLifecycle: both detectors are started and stopped by their caller   *)
(* in a quiet environment (no filesystem event, no connection attempt).    *)
(***************************************************************************)
NextLifecycle ==
    \/ ApiFwStart
    \/ ApiFwStop
    \/ FileWatcherStep
    \/ ObsExit
    \/ ApiNetStart
    \/ ApiNetStop
    \/ NetworkMonitorStep
    \/ SshBindOk
    \/ SshBindFail
    \/ SshLoop
    \/ SshAcceptTimeout
    \/ SshAcceptError
    \/ SshCloseListen
    \/ DnsStep

SpecLifecycle == Init /\ [][NextLifecycle]_vars

(***************************************************************************)
(* Helpers of the claims.                                                  *)
(***************************************************************************)
SeveritiesOf(log) == [i \in 1..Len(log) |-> Loads(log[i]).severity]

\* the alerts the classification policy asks for: one per file-level event
\* of the access class (HIGH) or of the mutation class (MEDIUM)
RECURSIVE ClaimedSeverities(_)
ClaimedSeverities(events) ==
    IF events = <<>> THEN <<>>
    ELSE LET e == Head(events)
             one == IF e.is_directory THEN <<>>
                    ELSE IF e.event_type \in {"opened", "accessed"} THEN <<"HIGH">>
                    ELSE IF e.event_type \in {"modified", "moved", "deleted"}
                         THEN <<"MEDIUM">>
                    ELSE <<>>
         IN  one \o ClaimedSeverities(Tail(events))

\* the HIGH alerts of the alert log that carry connection c's address
AlertsOf(c) ==
    {i \in 1..Len(alertsLog) :
        /\ Loads(alertsLog[i]).type = "SECURITY_ALERT"
        /\ Loads(alertsLog[i]).severity = "HIGH"
        /\ Loads(alertsLog[i]).details.client = Addr(c)}

InLogAlert(t) == pc[t] \in {"la_alerts", "la_activity", "la_hook"}

(***************************************************************************)
(* C2: between two dispatches, the alert log holds exactly one alert per   *)
(* dispatched file-level event of a classified subtype: HIGH for opened or *)
(* accessed, MEDIUM for modified, moved or deleted.                        *)
(***************************************************************************)
C2_OneAlertPerFileEvent ==
    pc["obs"] \in {"idle", "done"} =>
        SeveritiesOf(alertsLog) = ClaimedSeverities(dispatched)

(***************************************************************************)
(* C3: while the observer thread handles a directory event, in             *)
(* on_any_event and in the subtype callback, it never enters log_alert and *)
(* the alert log does not change.                                          *)
(***************************************************************************)
C3_DirectoryEventsNeverAlert ==
    [][cur.is_directory => (alertsLog' = alertsLog /\ ~InLogAlert("obs")')]_vars

C3_Witness ==
    /\ Len(dispatched) = 2
    /\ dispatched[1] = Event("opened", TRUE)
    /\ dispatched[2] = Event("modified", TRUE)
    /\ alertsLog = <<>>

(***************************************************************************)
(* C4: once NetworkMonitor.stop() has returned, no alert is appended to    *)
(* the alert log (the accept thread has exited and accepts nothing).       *)
(***************************************************************************)
C4_NoAlertAfterStop ==
    [][stopReturned["net"] => alertsLog' = alertsLog]_vars

(***************************************************************************)
(* C5: whenever FileWatcher.stop() has returned, the observer thread has   *)
(* terminated (or was never started), so it dispatches no event and        *)
(* appends no alert.                                                       *)
(***************************************************************************)
C5_StopJoinsObserver ==
    stopReturned["fw"] => (pc["obs"] \in {"init", "done"} /\ ~InLogAlert("obs"))

C5_Witness ==
    /\ stopReturned["fw"]
    /\ pc["obs"] = "done"
    /\ Len(dispatched) >= 1
    /\ evq # <<>>
    /\ alertsLog # <<>>

(***************************************************************************)
(* C6: after a second stop() on a detector, started before or not, no      *)
(* error was raised and the detector reports inactive: is_alive() is false *)
(* for the file watcher, is_running is false for the network monitor.      *)
(***************************************************************************)
Active(d) == IF d = "fw" THEN IsAlive ELSE net_is_running

C6_SecondStopHarmless ==
    \A d \in Detectors :
        (pc["main"] = "idle" /\ stopReturned[d] /\ stops[d] >= 2) =>
            (mainErr = "none" /\ ~Active(d))

C6_Witness ==
    /\ pc["main"] = "idle"
    /\ \A d \in Detectors : stopReturned[d] /\ stops[d] >= 2
    /\ pc["obs"] = "done"
    /\ pc["ssh"] # "init"

(***************************************************************************)
(* C7: every accepted connection has exactly one HIGH alert carrying its   *)
(* address once the alert-log write of its log_alert call is done, and     *)
(* never more than one; the banner is sent only after that alert is in the *)
(* log, and the connection is closed only after the banner was sent.       *)
(***************************************************************************)
Accepted(c) == conn[c].sock \in {"open", "closed"}

C7_AlertThenBannerThenClose ==
    \A c \in Conns :
        /\ Cardinality(AlertsOf(c)) <= 1
        /\ (Accepted(c) /\ ~(curConn = c /\ pc["ssh"] = "la_alerts"))
               => Cardinality(AlertsOf(c)) = 1
        /\ conn[c].banner => Cardinality(AlertsOf(c)) = 1
        /\ conn[c].sock = "closed" => conn[c].banner

C7_Witness ==
    /\ \A c \in Conns : conn[c].sock = "closed" /\ conn[c].banner
    /\ Len(alertsLog) = MaxConns

(***************************************************************************)
(* C8: every accepted connection whose per-connection step has ended is    *)
(* closed by the server side.                                              *)
(***************************************************************************)
InConnStep(c) == curConn = c /\ (InLogAlert("ssh") \/ pc["ssh"] \in {"send", "close"})

C8_AcceptedIsClosed ==
    \A c \in Conns : (conn[c].sock = "open") => InConnStep(c)

(***************************************************************************)
(* C9: a step in which the banner send or the close fails leaves the       *)
(* honeypot thread at the head of its accept loop: the failure does not    *)
(* end the loop.                                                           *)
(***************************************************************************)
C9_ConnFailureKeepsLoop ==
    [][connFailures' > connFailures => pc'["ssh"] = "loop"]_vars

C9_Witness ==
    /\ connFailures >= 1
    /\ conn[1].sock = "open"
    /\ ~conn[1].banner
    /\ conn[2].sock = "closed"
    /\ Cardinality(AlertsOf(2)) = 1

(***************************************************************************)
(* C10: every failure of the banner send or of the close has its ERROR     *)
(* entry in the error log.                                                 *)
(***************************************************************************)
C10_ConnFailuresLogged ==
    Len(SelectSeq(errorLog, LAMBDA line : Loads(line).type = "ERROR")) >= connFailures

(***************************************************************************)
(* C11: once the honeypot has bound its port, its accept loop ends only    *)
(* after stop() has been requested: whenever the honeypot thread has left  *)
(* the loop of a bound socket, is_running is false.  No error of accept or *)
(* of the per-connection step ends the loop while is_running is true.      *)
(***************************************************************************)
C11_LoopEndsOnlyOnStop ==
    (pc["ssh"] \in {"close_listen", "done"} /\ sshExit # "bind_error")
        => ~net_is_running

(***************************************************************************)
(* SpecIO: one caller using the log_* API while the disk starts and stops  *)
(* failing.                                                                *)
(***************************************************************************)
NextIO ==
    \/ \E sv \in Severities, m \in Messages : ApiLogAlert(sv, m)
    \/ \E m \in Messages : ApiLogInfo(m)
    \/ \E m \in Messages : ApiLogError(m)
    \/ LogAlertStep("main")
    \/ DiskFails
    \/ DiskRecovers

SpecIO == Init /\ [][NextIO]_vars

(***************************************************************************)
(* C12: log_alert, log_info and log_error never raise to their caller when *)
(* the file write fails: whatever the disk does, no exception reaches the  *)
(* caller, a log_alert in progress can always take its next step, and      *)
(* every call that has returned left no frame behind.                      *)
(***************************************************************************)
C12_WriteFailureAbsorbed ==
    /\ mainErr = "none"
    /\ InLogAlert("main") => ENABLED LogAlertStep("main")
    /\ pc["main"] = "idle" => (stack["main"] = <<>> /\ la["main"] = NoEntry)

\* a log_alert whose write to the alert log failed has returned, and the
\* caller's next log_alert was written
C12_Witness ==
    /\ pc["main"] = "idle"
    /\ Len(history) = 2
    /\ IsAlert(history[1]) /\ IsAlert(history[2])
    /\ history[1] # history[2]
    /\ alertsLog = <<Dumps(history[2])>>
    /\ mainErr = "none"

(***************************************************************************)
(* SpecHook: one caller raising alerts while the high-priority hook fails  *)
(* in each of its ways.                                                    *)
(***************************************************************************)
NextHook ==
    \/ \E sv \in Severities, m \in Messages : ApiLogAlert(sv, m)
    \/ LogAlertStep("main")
    \/ LaHookConsoleRaises("main")
    \/ LaHookNotifyRaises("main")
    \/ LaHookCommandFails("main")
    \/ Tick

SpecHook == Init /\ [][NextHook]_vars

(***************************************************************************)
(* C13: a failure of the high-priority hook during log_alert(HIGH) never   *)
(* reaches the caller and is recorded as an ERROR entry: no exception is   *)
(* raised to the caller, and once the call has returned the error log      *)
(* holds one ERROR entry for each hook call that failed.                   *)
(***************************************************************************)
HookFailures == SelectSeq(notified, LAMBDA h : h.outcome # "ok")
HookErrors == SelectSeq(errorLog, LAMBDA line : Loads(line).type = "ERROR")

C13_HookFailureLoggedNotRaised ==
    /\ mainErr = "none"
    /\ pc["main"] = "idle" => Len(HookErrors) = Len(HookFailures)

(***************************************************************************)
(* C14: the hook is invoked exactly once, inside log_alert and after the   *)
(* record was written to the alert log, for every HIGH alert and for no    *)
(* other severity: the hook calls are the caller's HIGH alerts in call     *)
(* order (all of them once the call has returned, all but the one in       *)
(* progress before), and every alert given to the hook is in the alert log.*)
(***************************************************************************)
HighAlerts == SelectSeq(history, LAMBDA e : IsAlert(e) /\ e.severity = "HIGH")
HookedAlerts == [i \in 1..Len(notified) |-> notified[i].alert]

C14_HookOncePerHighAlert ==
    /\ pc["main"] = "idle" => HookedAlerts = HighAlerts
    /\ InLogAlert("main") =>
           \/ HookedAlerts = HighAlerts
           \/ /\ la["main"].severity = "HIGH"
              /\ HighAlerts = Append(HookedAlerts, la["main"])
    /\ \A i \in 1..Len(notified) :
           \E j \in 1..Len(alertsLog) : Loads(alertsLog[j]) = notified[i].alert

\* three alerts were raised, a MEDIUM, a HIGH and an UNKNOWN one, and the
\* hook ran for the HIGH one only
C14_Witness ==
    /\ pc["main"] = "idle"
    /\ Len(history) = 3
    /\ history[1].severity = "MEDIUM"
    /\ history[2].severity = "HIGH"
    /\ history[3].severity = "UNKNOWN"
    /\ Len(notified) = 1
    /\ notified[1].alert = history[2]

(***************************************************************************)
(* SpecScan: the queries applied to an alert log found at start-up.  The   *)
(* log holds any sequence of at most MaxLines lines, each an alert record  *)
(* (any severity, either of two epochs, in any order) or a malformed line. *)
(***************************************************************************)
ScanTime == SecondsPerHour
StoredEpochs == {0, TickSeconds}
StoredAlerts ==
    {AlertEntry(sv, m, NoDetails, e) : sv \in Severities, m \in Messages, e \in StoredEpochs}
StoredLines == {Dumps(a) : a \in StoredAlerts} \cup {Garbage, EmptyLine, Truncated, Scalar}
StoredLogs == UNION {[1..k -> StoredLines] : k \in 0..MaxLines}

InitScan ==
    /\ alertsLog \in StoredLogs
    /\ now = ScanTime
    /\ InitProgram

NextScan ==
    \/ \E h \in Hours : ApiGetRecentAlerts(h)
    \/ ApiGetAlertSummary
    \/ \E h \in Hours : ApiExportLogs(h)

SpecScan == InitScan /\ [][NextScan]_vars

\* the alert records stored in the alert log, in file order
IsRecord(line) == line.form = "object"
Records == LET lines == SelectSeq(alertsLog, IsRecord)
           IN  [i \in 1..Len(lines) |-> lines[i].value]

(***************************************************************************)
(* C15: get_recent_alerts(window) called at time now returns exactly the   *)
(* stored alerts whose epoch is strictly greater than now - window, in     *)
(* file order: an alert at the cutoff is left out, and so is an older one  *)
(* wherever it is stored.                                                  *)
(***************************************************************************)
C15_RecentIsStrictWindow ==
    result.op = "recent" =>
        result.alerts =
            SelectSeq(Records,
                      LAMBDA a : a.epoch > now - result.hours * SecondsPerHour)

\* a newer alert is stored before an older one whose epoch is the cutoff,
\* and the query returned the newer one only
C15_Witness ==
    /\ result.op = "recent"
    /\ Len(alertsLog) = 2
    /\ IsRecord(alertsLog[1]) /\ IsRecord(alertsLog[2])
    /\ alertsLog[1].value.epoch > alertsLog[2].value.epoch
    /\ alertsLog[2].value.epoch = now - result.hours * SecondsPerHour
    /\ result.alerts = <<alertsLog[1].value>>

(***************************************************************************)
(* C16: in the summary get_alert_summary returns, total_alerts is the      *)
(* number of alert records stored, and high_severity, medium_severity and  *)
(* low_severity are the numbers of records with severity HIGH, MEDIUM and  *)
(* LOW; a record with any other severity is counted in total_alerts and in *)
(* none of the three, so their sum never exceeds total_alerts.             *)
(***************************************************************************)
CountOf(severity) == Len(SelectSeq(Records, LAMBDA a : a.severity = severity))

C16_SummaryCounts ==
    result.op = "summary" =>
        /\ result.summary.total_alerts = Len(Records)
        /\ result.summary.high_severity = CountOf("HIGH")
        /\ result.summary.medium_severity = CountOf("MEDIUM")
        /\ result.summary.low_severity = CountOf("LOW")
        /\ result.summary.high_severity + result.summary.medium_severity
               + result.summary.low_severity
             = result.summary.total_alerts - CountOf("UNKNOWN")

\* the summary of a log holding a HIGH, an UNKNOWN and a LOW record
C16_Witness ==
    /\ result.op = "summary"
    /\ Len(Records) = 3
    /\ Records[1].severity = "HIGH"
    /\ Records[2].severity = "UNKNOWN"
    /\ Records[3].severity = "LOW"
    /\ result.summary.total_alerts = 3
    /\ result.summary.high_severity = 1
    /\ result.summary.medium_severity = 0
    /\ result.summary.low_severity = 1

(***************************************************************************)
(* C17: last_alert of the summary is a record of maximal epoch among the   *)
(* stored alerts, and among records sharing that epoch it is the one at    *)
(* the latest file position.                                               *)
(***************************************************************************)
C17_LastAlertIsLatestOfNewest ==
    (result.op = "summary" /\ Records # <<>>) =>
        \E i \in 1..Len(Records) :
            /\ result.summary.last_alert = Records[i]
            /\ \A j \in 1..Len(Records) : Records[j].epoch <= Records[i].epoch
            /\ \A j \in (i + 1)..Len(Records) : Records[j].epoch < Records[i].epoch

(***************************************************************************)
(* C18: a line that cannot be parsed at all (garbage, an empty line, a     *)
(* truncated record) is skipped by get_recent_alerts, get_alert_summary    *)
(* and export_logs: on a log whose other lines are alert records no call   *)
(* raises, the summary counts the records only, and the recent list and    *)
(* the exported alerts are the in-window records before and after it.      *)
(***************************************************************************)
Unparsable(line) == line.form \in {"garbage", "empty", "truncated"}
InWindowRecords(hours) ==
    SelectSeq(Records, LAMBDA a : a.epoch > now - hours * SecondsPerHour)

C18_UnparsableLineSkipped ==
    (\A i \in 1..Len(alertsLog) : IsRecord(alertsLog[i]) \/ Unparsable(alertsLog[i])) =>
        /\ mainErr = "none"
        /\ result.op = "summary" =>
               /\ result.summary.total_alerts = Len(Records)
               /\ result.summary.last_24h = Len(Records)
               /\ result.summary.high_severity + result.summary.medium_severity
                      + result.summary.low_severity <= Len(Records)
        /\ result.op = "recent" =>
               /\ Len(result.alerts) <= Len(Records)
               /\ result.alerts = InWindowRecords(result.hours)
        /\ exportFile.written => exportFile.alerts = InWindowRecords(exportFile.hours)

\* a log with an unparsable line between two records was summarised and
\* exported: two alerts counted, two alerts exported
C18_Witness ==
    /\ Len(alertsLog) = 3
    /\ IsRecord(alertsLog[1]) /\ Unparsable(alertsLog[2]) /\ IsRecord(alertsLog[3])
    /\ result.op = "summary"
    /\ result.summary.total_alerts = 2
    /\ exportFile.written
    /\ exportFile.alerts = <<alertsLog[1].value, alertsLog[3].value>>
    /\ mainErr = "none"

(***************************************************************************)
(* C19: a line that parses to a value that is no object (a number, a       *)
(* string, a list, null) is treated as malformed: get_recent_alerts and    *)
(* get_alert_summary raise nothing, total_alerts counts the records only,  *)
(* and the records before and after the line are still processed.          *)
(***************************************************************************)
C19_NonObjectLineSkipped ==
    (\E i \in 1..Len(alertsLog) : alertsLog[i] = Scalar) =>
        /\ mainErr = "none"
        /\ result.op = "summary" => result.summary.total_alerts = Len(Records)
        /\ result.op = "recent" => result.alerts = InWindowRecords(result.hours)

(***************************************************************************)
(* SpecExport: one caller using the log_* API while the clock runs, and    *)
(* exporting the logs once.                                                *)
(***************************************************************************)
NextExport ==
    \/ \E sv \in Severities, m \in Messages : ApiLogAlert(sv, m)
    \/ \E m \in Messages : ApiLogInfo(m)
    \/ \E m \in Messages : ApiLogError(m)
    \/ LogAlertStep("main")
    \/ Tick
    \/ \E h \in Hours : ApiExportLogs(h)

SpecExport == Init /\ [][NextExport]_vars

(***************************************************************************)
(* C20: the snapshot export_logs writes holds, in errors, every ERROR      *)
(* record of the error log that is within the export window, and likewise  *)
(* every in-window alert in alerts and every in-window INFO record in      *)
(* activities: at the step that writes the file, each in-window record of  *)
(* each log is an element of the matching list.                            *)
(***************************************************************************)
InExportWindow(log, kind, hours) ==
    {Loads(log[i]) : i \in {j \in 1..Len(log) :
        /\ Loads(log[j]).type = kind
        /\ Loads(log[j]).epoch > now - hours * SecondsPerHour}}
Elements(list) == {list[i] : i \in 1..Len(list)}

C20_ExportHoldsEveryKind ==
    [][(~exportFile.written /\ exportFile'.written) =>
          /\ InExportWindow(errorLog, "ERROR", exportFile'.hours)
                 \subseteq Elements(exportFile'.errors)
          /\ InExportWindow(alertsLog, "SECURITY_ALERT", exportFile'.hours)
                 \subseteq Elements(exportFile'.alerts)
          /\ InExportWindow(activityLog, "INFO", exportFile'.hours)
                 \subseteq Elements(exportFile'.activities)]_vars

(***************************************************************************)
(* C21: the snapshot export_logs writes is partitioned by kind: alerts     *)
(* holds only SECURITY_ALERT records, activities only INFO records, errors *)
(* only ERROR records, and no record is in two of the lists.               *)
(***************************************************************************)
C21_ExportPartitionedByKind ==
    exportFile.written =>
        /\ \A e \in Elements(exportFile.alerts) : e.type = "SECURITY_ALERT"
        /\ \A e \in Elements(exportFile.activities) : e.type = "INFO"
        /\ \A e \in Elements(exportFile.errors) : e.type = "ERROR"
        /\ Elements(exportFile.alerts) \cap Elements(exportFile.activities) = {}
        /\ Elements(exportFile.alerts) \cap Elements(exportFile.errors) = {}
        /\ Elements(exportFile.activities) \cap Elements(exportFile.errors) = {}

(***************************************************************************)
(* SpecStore: every operation of the AlertLogger, by one caller, on one    *)
(* logs directory: at most MaxOps constructions and MaxOps log_* calls,    *)
(* any number of queries and one export.  The alerts are HIGH (the hook    *)
(* runs) or LOW (it does not).                                             *)
(***************************************************************************)
StoreSeverities == {"HIGH", "LOW"}

NextStore ==
    \/ ApiConstruct
    \/ Len(history) < MaxOps /\ \E sv \in StoreSeverities, m \in Messages : ApiLogAlert(sv, m)
    \/ Len(history) < MaxOps /\ \E m \in Messages : ApiLogInfo(m)
    \/ Len(history) < MaxOps /\ \E m \in Messages : ApiLogError(m)
    \/ LogAlertStep("main")
    \/ \E h \in Hours : ApiGetRecentAlerts(h)
    \/ ApiGetAlertSummary
    \/ \E h \in Hours : ApiExportLogs(h)

SpecStore == Init /\ [][NextStore]_vars

(***************************************************************************)
(* C22: the store is append-only: in every step of every AlertLogger       *)
(* operation (construction, log_alert, log_info, log_error,                *)
(* get_recent_alerts, get_alert_summary, export_logs) the content of each  *)
(* log before the step is a prefix of its content after it.                *)
(***************************************************************************)
IsPrefix(a, b) == Len(a) <= Len(b) /\ SubSeq(b, 1, Len(a)) = a

C22_AppendOnly ==
    [][/\ IsPrefix(alertsLog, alertsLog')
       /\ IsPrefix(activityLog, activityLog')
       /\ IsPrefix(errorLog, errorLog')]_vars

\* every kind of operation has run on logs that already held records
C22_Witness ==
    /\ pc["main"] = "idle"
    /\ Constructions = 2
    /\ Len(alertsLog) = 1
    /\ Len(errorLog) = 1
    /\ Len(activityLog) = 4
    /\ result.op = "summary"
    /\ exportFile.written

(***************************************************************************)
(* SpecDetect: both detectors run side by side: files of the watched       *)
(* directory are opened and modified while clients connect to the honeypot *)
(* port.  Nothing fails and nothing is stopped.  The initial state is the  *)
(* one FileWatcher.start() followed by NetworkMonitor.start() lead to on a *)
(* fresh logs directory, with the honeypot bound and both placeholder and  *)
(* accept threads in their loops.                                          *)
(***************************************************************************)
InitRunning ==
    /\ alertsLog = <<>>
    /\ activityLog = <<Dumps(InfoEntry(InitMessage, 0)),
                       Dumps(InfoEntry("File watcher started", 0)),
                       Dumps(InfoEntry("Fake SSH server started on localhost:2222", 0)),
                       Dumps(InfoEntry("DNS monitoring placeholder started", 0)),
                       Dumps(InfoEntry("Network monitoring started", 0))>>
    /\ errorLog = <<>>
    /\ notified = <<>>
    /\ diskOk = TRUE
    /\ result = NoResult
    /\ exportFile = NoFile
    /\ wpos = [t \in Threads |-> 0]
    /\ hh_running = FALSE
    /\ lookup = "ok"
    /\ now = 0
    /\ pc = [t \in Threads |-> IF t \in {"main", "obs"} THEN "idle"
                              ELSE IF t \in {"ssh", "dns"} THEN "loop" ELSE "init"]
    /\ stack = [t \in Threads |-> <<>>]
    /\ la = [t \in Threads |-> NoEntry]
    /\ history = <<>>
    /\ fw_is_running = TRUE
    /\ obsStop = FALSE
    /\ evq = <<>>
    /\ cur = NoEvent
    /\ nEvents = 0
    /\ dispatched = <<>>
    /\ net_is_running = TRUE
    /\ monitors = <<"ssh", "dns">>
    /\ listening = TRUE
    /\ backlog = <<>>
    /\ conn = [c \in Conns |-> [sock |-> "new", banner |-> FALSE]]
    /\ curConn = 0
    /\ stopReturned = [d \in Detectors |-> FALSE]
    /\ stops = [d \in Detectors |-> 0]
    /\ mainErr = "none"
    /\ sshExit = "none"
    /\ connFailures = 0

NextDetect ==
    \/ \E e \in {"opened", "modified"} : FsEvent(e, FALSE)
    \/ ObsTake
    \/ ObsOnAnyEvent
    \/ ObsOnSubtype
    \/ ObsDispatched
    \/ LogAlertStep("obs")
    \/ \E c \in Conns : ClientConnect(c)
    \/ SshLoop
    \/ SshAcceptTimeout
    \/ SshAccept
    \/ SshSendOk
    \/ SshCloseOk
    \/ LogAlertStep("ssh")

SpecDetect == InitRunning /\ [][NextDetect]_vars

(***************************************************************************)
(* SpecConc: SpecDetect on a platform where an append is a seek followed   *)
(* by a write.                                                             *)
(***************************************************************************)
NextConc ==
    \/ NextDetect
    \/ \E t \in {"obs", "ssh"} : LaSeekAlerts(t)
    \/ \E t \in {"obs", "ssh"} : LaPutAlerts(t)

SpecConc == InitRunning /\ [][NextConc]_vars

(***************************************************************************)
(* C23: when the file-monitor thread and the honeypot thread call          *)
(* log_alert concurrently, each line of the alert log is one complete      *)
(* record of one writer and no record is lost: every line is a record, the *)
(* log holds one alert for each connection whose banner was sent, and,     *)
(* between two dispatches, one alert for each log_alert call the handlers  *)
(* made for the dispatched events.                                         *)
(***************************************************************************)
FwAlerts ==
    SelectSeq(alertsLog, LAMBDA line : IsRecord(line) /\ line.value.details.client = "")

RECURSIVE HandlerCalls(_)
HandlerCalls(events) ==
    IF events = <<>> THEN 0
    ELSE (IF OnAnyEventClass(Head(events)) = "none" THEN 0 ELSE 1)
         + (IF SubtypeClass(Head(events)) = "none" THEN 0 ELSE 1)
         + HandlerCalls(Tail(events))

C23_EveryRecordWhole ==
    /\ \A i \in 1..Len(alertsLog) : IsRecord(alertsLog[i])
    /\ \A c \in Conns : conn[c].banner => Cardinality(AlertsOf(c)) = 1
    /\ pc["obs"] = "idle" => Len(FwAlerts) = HandlerCalls(dispatched)

(***************************************************************************)
(* main.py: HoneyHawk.start, stop, _signal_handler                         *)
(***************************************************************************)
\* honeyhawk.start(): directories, tokens, then self.file_watcher.start()
ApiHhStart ==
    /\ pc["main"] = "idle"
    /\ pc["obs"] = "init"
    /\ pc["ssh"] = "init"
    /\ mainErr = "none"
    /\ Call("main", "fw_start", "hh_start_net")
    /\ UNCHANGED <<logVars, la, fwVars, netVars, obsVars, now, history>>

\* self.network_monitor.start()
HhStartNet ==
    /\ pc["main"] = "hh_start_net"
    /\ Call("main", "net_start", "hh_start_running")
    /\ UNCHANGED <<logVars, la, fwVars, netVars, obsVars, now, history>>

\* self.running = True
HhStartRunning ==
    /\ pc["main"] = "hh_start_running"
    /\ hh_running' = TRUE
    /\ Goto("main", "hh_loop")
    /\ UNCHANGED <<alertsLog, activityLog, errorLog, notified, diskOk, result,
                   exportFile, wpos, lookup, stack, la, fwVars, netVars, obsVars, now,
                   history>>

\* while self.running: time.sleep(1) -- the loop ends and start() returns
\* once running is false
HhLoop ==
    /\ pc["main"] = "hh_loop"
    /\ ~hh_running
    /\ Goto("main", "idle")
    /\ UNCHANGED <<logVars, stack, la, fwVars, netVars, obsVars, now, history>>

\* SIGINT or SIGTERM while the main thread sleeps in the loop:
\* _signal_handler runs self.stop() on the main thread and returns to the loop
HhSignal ==
    /\ pc["main"] = "hh_loop"
    /\ hh_running
    /\ Call("main", "hh_stop", "hh_loop")
    /\ UNCHANGED <<logVars, la, fwVars, netVars, obsVars, now, history>>

\* stop(): self.running = False; self.file_watcher.stop()
HhStop ==
    /\ pc["main"] = "hh_stop"
    /\ hh_running' = FALSE
    /\ Call("main", "fw_stop", "hh_stop_net")
    /\ UNCHANGED <<alertsLog, activityLog, errorLog, notified, diskOk, result,
                   exportFile, wpos, lookup, la, fwVars, netVars, obsVars, now, history>>

\* self.network_monitor.stop()
HhStopNet ==
    /\ pc["main"] = "hh_stop_net"
    /\ Call("main", "net_stop", "hh_stop_done")
    /\ UNCHANGED <<logVars, la, fwVars, netVars, obsVars, now, history>>

\* print("HoneyHawk stopped successfully"), return
HhStopDone ==
    /\ pc["main"] = "hh_stop_done"
    /\ Return("main")
    /\ UNCHANGED <<logVars, la, fwVars, netVars, obsVars, now, history>>

HoneyHawkStep ==
    \/ HhStartNet
    \/ HhStartRunning
    \/ HhLoop
    \/ HhStop
    \/ HhStopNet
    \/ HhStopDone

\* HoneyHawk.stop() was called and has returned
HhStopReturned ==
    /\ stops["net"] > 0
    /\ pc["main"] \in {"hh_loop", "idle"}

(***************************************************************************)
(* SpecApp: the program as main() runs it: HoneyHawk.start() brings up the *)
(* file watcher and then the network monitor, clients connect to the       *)
(* honeypot port while the watched directory stays untouched, and a        *)
(* shutdown signal runs HoneyHawk.stop().  The watch may fail to install   *)
(* and the honeypot port may be taken.                                     *)
(***************************************************************************)
NextApp ==
    \/ ApiHhStart
    \/ HoneyHawkStep
    \/ HhSignal
    \/ FileWatcherStep
    \/ FwStartFails
    \/ ObsExit
    \/ NetworkMonitorStep
    \/ \E c \in Conns : ClientConnect(c)
    \/ SshBindOk
    \/ SshBindFail
    \/ SshLoop
    \/ SshAcceptTimeout
    \/ SshAccept
    \/ SshSendOk
    \/ SshCloseOk
    \/ SshCloseListen
    \/ LogAlertStep("ssh")
    \/ DnsStep

SpecApp == Init /\ [][NextApp]_vars

(***************************************************************************)
(* C24: when the honeypot cannot bind its port, the failure is recorded as *)
(* exactly one ERROR entry, HoneyHawk.start() is not aborted (no exception *)
(* reaches its caller and it goes on to its running state), and the file   *)
(* watcher started before keeps running until stop() is asked for.         *)
(***************************************************************************)
\* start() is past the creation of the honeypot thread and not yet running
HhStarting == pc["main"] \in {"net_start_dns", "net_start_log", "hh_start_running"}

C24_BindFailureDegradesOnly ==
    sshExit = "bind_error" =>
        /\ errorLog = <<Dumps(ErrorEntry(BindErrorMessage, now))>>
        /\ mainErr = "none"
        /\ HhStarting \/ hh_running \/ stops["fw"] > 0 \/ pc["main"] \in
               {"hh_stop", "fw_stop", "fw_stop_observer", "fw_stop_join",
                "fw_stop_flag", "fw_stop_log"}
        /\ (HhStarting \/ hh_running) => IsAlive

C24_Witness ==
    /\ sshExit = "bind_error"
    /\ hh_running
    /\ pc["main"] = "hh_loop"
    /\ IsAlive
    /\ Len(errorLog) = 1

(***************************************************************************)
(* C25: a failure of FileWatcher.start() degrades the file watcher only:   *)
(* HoneyHawk.start() does not end with the exception, it goes on to start  *)
(* the network honeypot and to its running state.  Once the watcher's      *)
(* start has failed, start() has not come back to its caller while the     *)
(* honeypot thread was never started.                                      *)
(***************************************************************************)
FwStartFailed == mainErr = "OSError" /\ pc["obs"] = "init"

C25_WatcherFailureDegradesOnly ==
    FwStartFailed => pc["main"] # "idle" \/ pc["ssh"] # "init"

(***************************************************************************)
(* C26: when HoneyHawk.stop() has returned, both detectors have fully      *)
(* stopped: the observer thread and the honeypot accept thread have        *)
(* exited, and no step appends to the alert log any more.                  *)
(***************************************************************************)
DetectorsExited == pc["obs"] = "done" /\ pc["ssh"] = "done"

C26_StopLeavesNothingRunning ==
    [][HhStopReturned => DetectorsExited /\ alertsLog' = alertsLog]_vars

(***************************************************************************)
(* NetworkMonitor.start() called a second time on the same object, after   *)
(* stop() has returned and while the first accept loop has not observed    *)
(* the stop request: its socket still holds port 2222.                     *)
(***************************************************************************)
\* start(): self.is_running = True
ApiNetRestart ==
    /\ pc["main"] = "idle"
    /\ stopReturned["net"]
    /\ pc["ssh2"] = "init"
    /\ listening
    /\ pc["ssh"] # "close_listen"
    /\ net_is_running' = TRUE
    /\ Call("main", "net_restart_ssh", "idle")
    /\ stopReturned' = [stopReturned EXCEPT !["net"] = FALSE]
    /\ UNCHANGED <<logVars, la, fwVars, monitors, listening, backlog, conn, curConn,
                   stops, mainErr, sshExit, connFailures, now, history>>

\* _start_fake_ssh_server: a new thread is started and appended
NetRestartSsh ==
    /\ pc["main"] = "net_restart_ssh"
    /\ pc' = [pc EXCEPT !["main"] = "net_restart_dns", !["ssh2"] = "bind"]
    /\ monitors' = Append(monitors, "ssh2")
    /\ UNCHANGED <<logVars, stack, la, fwVars, net_is_running, listening, backlog,
                   conn, curConn, obsVars, now, history>>

\* _start_dns_monitor: a new thread is started and appended
NetRestartDns ==
    /\ pc["main"] = "net_restart_dns"
    /\ pc' = [pc EXCEPT !["main"] = "net_start_log", !["dns2"] = "start"]
    /\ monitors' = Append(monitors, "dns2")
    /\ UNCHANGED <<logVars, stack, la, fwVars, net_is_running, listening, backlog,
                   conn, curConn, obsVars, now, history>>

\* the new thread's bind on the port the first socket listens on raises
\* (address in use): log_error, the thread ends
Ssh2BindFail ==
    /\ pc["ssh2"] = "bind"
    /\ listening
    /\ LogError(BindErrorMessage)
    /\ Goto("ssh2", "done")
    /\ UNCHANGED <<notified, ioVars, stack, la, fwVars, netVars, obsVars, now, history>>

Dns2Start ==
    /\ pc["dns2"] = "start"
    /\ LogInfo("DNS monitoring placeholder started")
    /\ Goto("dns2", "loop")
    /\ UNCHANGED <<notified, ioVars, stack, la, fwVars, netVars, obsVars, now, history>>

Dns2Loop ==
    /\ pc["dns2"] = "loop"
    /\ ~net_is_running
    /\ Goto("dns2", "done")
    /\ UNCHANGED <<logVars, stack, la, fwVars, netVars, obsVars, now, history>>

(***************************************************************************)
(* SpecRestart: a running network monitor is stopped and started again     *)
(* while clients connect.  A further stop() comes only after the second    *)
(* honeypot thread has ended.                                              *)
(***************************************************************************)
NextRestart ==
    \/ (stops["net"] = 0 \/ pc["ssh2"] = "done") /\ ApiNetStop
    \/ NetStopFlag
    \/ NetStopMonitors
    \/ NetStopLog
    \/ ApiNetRestart
    \/ NetRestartSsh
    \/ NetRestartDns
    \/ NetStartLog
    \/ \E c \in Conns : ClientConnect(c)
    \/ SshLoop
    \/ SshAcceptTimeout
    \/ SshAccept
    \/ SshSendOk
    \/ SshCloseOk
    \/ SshCloseListen
    \/ LogAlertStep("ssh")
    \/ DnsLoop
    \/ Ssh2BindFail
    \/ Dns2Start
    \/ Dns2Loop

SpecRestart == InitRunning /\ [][NextRestart]_vars

(***************************************************************************)
(* C27: stop() on the network detector is one-way: once stop() has been    *)
(* called and has returned, the accept loop that was running never goes    *)
(* from its loop test back to accept(), also when start() is called again  *)
(* before the loop has seen the flag.  (Under SpecRestart the loop runs    *)
(* from the initial state on, so every stop() finds it running.)           *)
(***************************************************************************)
C27_StopIsOneWay ==
    [][stops["net"] > 0 /\ pc["ssh"] = "loop" => pc'["ssh"] # "accept"]_vars

(***************************************************************************)
(* SpecStopFair: a running network monitor is stopped (and never started   *)
(* again) while clients connect and sends, closes and accepts may fail.    *)
(* The honeypot thread is an operating-system thread that keeps being      *)
(* scheduled, and each of its steps ends: accept() returns or times out    *)
(* after one second, the banner step sends a few bytes and sleeps two      *)
(* seconds, a log write returns.  Hence weak fairness of its steps; an     *)
(* accept() that fails with another error is a fault that need not happen. *)
(***************************************************************************)
HoneypotProgress ==
    \/ SshLoop
    \/ SshAcceptTimeout
    \/ SshAccept
    \/ SshSendOk
    \/ SshSendFail
    \/ SshCloseOk
    \/ SshCloseFail
    \/ SshCloseListen
    \/ LogAlertStep("ssh")

NextStop ==
    \/ ApiNetStop
    \/ NetStopFlag
    \/ NetStopMonitors
    \/ NetStopLog
    \/ \E c \in Conns : ClientConnect(c)
    \/ SshLoop
    \/ SshAcceptTimeout
    \/ SshAccept
    \/ SshAcceptError
    \/ SshSendOk
    \/ SshSendFail
    \/ SshCloseOk
    \/ SshCloseFail
    \/ SshCloseListen
    \/ LogAlertStep("ssh")
    \/ DnsLoop

SpecStopFair == InitRunning /\ [][NextStop]_vars /\ WF_vars(HoneypotProgress)

(***************************************************************************)
(* C28: after stop() has cleared is_running (and no start() follows), the  *)
(* accept loop eventually exits with the listening socket closed; its next *)
(* loop test leaves the loop instead of going back to accept().            *)
(***************************************************************************)
C28_LoopExitsAfterStop ==
    /\ (~net_is_running /\ pc["ssh"] # "done") ~> (pc["ssh"] = "done" /\ ~listening)
    /\ [][~net_is_running /\ pc["ssh"] = "loop"
            => pc'["ssh"] \in {"loop", "close_listen"}]_vars

C28_Witness ==
    /\ ~net_is_running
    /\ sshExit = "stopped"
    /\ pc["ssh"] = "done"
    /\ ~listening
    /\ \E c \in Conns : conn[c].sock = "closed"

(***************************************************************************)
(* SpecOrder: SpecDetect with a fixed alternation of the raw events: an    *)
(* open, then a modification, then an open, ... so that consecutive events *)
(* raise alerts that differ.                                               *)
(***************************************************************************)
NextEventType == IF nEvents % 2 = 0 THEN "opened" ELSE "modified"

NextOrder ==
    \/ FsEvent(NextEventType, FALSE)
    \/ ObsTake
    \/ ObsOnAnyEvent
    \/ ObsOnSubtype
    \/ ObsDispatched
    \/ LogAlertStep("obs")
    \/ \E c \in Conns : ClientConnect(c)
    \/ SshLoop
    \/ SshAcceptTimeout
    \/ SshAccept
    \/ SshSendOk
    \/ SshCloseOk
    \/ LogAlertStep("ssh")

SpecOrder == InitRunning /\ [][NextOrder]_vars

(***************************************************************************)
(* C29: the alerts of one detector stand in the alert log in the order in  *)
(* which that detector classified the underlying events, whatever the      *)
(* interleaving with the other detector: the file alerts are a prefix of   *)
(* the alerts the handlers raise for the events in queue order             *)
(* (on_any_event, then the subtype callback, for each event), and the i-th *)
(* honeypot alert is the one of the i-th accepted connection.              *)
(***************************************************************************)
SshAlerts ==
    SelectSeq(alertsLog, LAMBDA line : IsRecord(line) /\ line.value.details.client # "")

\* severity and event subtype of an alert record
AlertKey(line) == <<line.value.severity, line.value.details.event>>

ClassSeverity(class) == IF class = "access" THEN AccessSeverity ELSE ModificationSeverity

\* the log_alert calls dispatch() makes for `events`, in order
RECURSIVE HandlerAlerts(_)
HandlerAlerts(events) ==
    IF events = <<>> THEN <<>>
    ELSE LET e == Head(events)
             first  == IF OnAnyEventClass(e) = "none" THEN <<>>
                       ELSE <<<<ClassSeverity(OnAnyEventClass(e)), e.event_type>>>>
             second == IF SubtypeClass(e) = "none" THEN <<>>
                       ELSE <<<<ClassSeverity(SubtypeClass(e)), e.event_type>>>>
         IN  first \o second \o HandlerAlerts(Tail(events))

\* every event emitted so far, in the order the observer takes them
EventsInOrder == dispatched \o (IF cur = NoEvent THEN <<>> ELSE <<cur>>) \o evq

C29_PerDetectorOrder ==
    /\ IsPrefix([i \in 1..Len(FwAlerts) |-> AlertKey(FwAlerts[i])],
                HandlerAlerts(EventsInOrder))
    /\ \A i \in 1..Len(SshAlerts) : SshAlerts[i].value.details.client = Addr(i)

C29_Witness ==
    /\ Len(FwAlerts) = 4
    /\ Len(SshAlerts) = 2
    /\ AlertKey(FwAlerts[1]) # AlertKey(FwAlerts[4])
    /\ alertsLog[1].value.details.client = ""
    /\ alertsLog[2].value.details.client # ""
    /\ alertsLog[3].value.details.client = ""
    /\ alertsLog[6].value.details.client # ""

(***************************************************************************)
(* The host: the lookups of _get_system_info start and stop failing (the   *)
(* resolver is down, the environment has no USER).                         *)
(***************************************************************************)
LookupChanges(l) ==
    /\ l # lookup
    /\ lookup' = l
    /\ UNCHANGED <<alertsLog, activityLog, errorLog, notified, diskOk, result,
                   exportFile, wpos, hh_running, thrVars, fwVars, netVars, obsVars,
                   now, history>>

(***************************************************************************)
(* SpecEnrich: the running file watcher dispatches events while the        *)
(* lookups of the host come and go.                                        *)
(***************************************************************************)
NextEnrich ==
    \/ \E l \in Lookups : LookupChanges(l)
    \/ \E e \in {"opened", "modified", "created"} : FsEvent(e, FALSE)
    \/ ObsTake
    \/ ObsOnAnyEvent
    \/ ObsOnSubtype
    \/ ObsDispatched
    \/ LogAlertStep("obs")

SpecEnrich == InitRunning /\ [][NextEnrich]_vars

(***************************************************************************)
(* C30: a failing lookup of the environment context never discards a file  *)
(* event: each callback that classifies the event calls log_alert with the *)
(* normal severity of the class, and the context fields whose lookup       *)
(* failed read "unknown".                                                  *)
(***************************************************************************)
\* the class of the callback the observer thread is about to run
CallbackClass ==
    IF pc["obs"] = "on_any_event" THEN OnAnyEventClass(cur)
    ELSE IF pc["obs"] = "on_subtype" THEN SubtypeClass(cur)
    ELSE "none"

C30_LookupFailureKeepsEvent ==
    [][CallbackClass # "none" /\ pc'["obs"] # pc["obs"] =>
         /\ pc'["obs"] = "la_alerts"
         /\ la'["obs"].severity = ClassSeverity(CallbackClass)
         /\ la'["obs"].details.event = cur.event_type
         /\ lookup = "raises" =>
              /\ la'["obs"].details.system.hostname = "unknown"
              /\ CallbackClass = "access" =>
                   /\ la'["obs"].details.system.os = "unknown"
                   /\ la'["obs"].details.system.user = "unknown"
         /\ lookup = "no_user" /\ CallbackClass = "access" =>
              la'["obs"].details.system.user = "unknown"]_vars

C30_Witness ==
    /\ pc["obs"] = "idle"
    /\ Len(alertsLog) = 4
    /\ alertsLog[1].value.severity = "HIGH"
    /\ alertsLog[1].value.details.system = UnknownInfo
    /\ alertsLog[2].value.details.system = SystemInfo
    /\ alertsLog[3].value.severity = "MEDIUM"
    /\ alertsLog[3].value.details.system.hostname = "unknown"
    /\ alertsLog[4].value.details.system.hostname = "host1"

(***************************************************************************)
(* A shutdown signal during HoneyHawk.start(): Python runs _signal_handler *)
(* on the main thread between two instructions of whatever the main        *)
(* thread is executing, and resumes there when the handler returns.        *)
(***************************************************************************)
\* the labels of start() before the idle loop: before, inside, between and
\* after the two detector starts, and before self.running = True
StartLabels ==
    {"fw_start", "fw_start_flag", "fw_start_log", "hh_start_net", "net_start",
     "net_start_ssh", "net_start_dns", "net_start_log", "hh_start_running"}

HhSignalInStart ==
    /\ pc["main"] \in StartLabels
    /\ stops["net"] = 0
    /\ Call("main", "hh_stop", pc["main"])
    /\ UNCHANGED <<logVars, la, fwVars, netVars, obsVars, now, history>>

(***************************************************************************)
(* SpecSignal: main() runs HoneyHawk.start() in a quiet environment; one   *)
(* shutdown signal arrives during start(), or signals arrive in the idle   *)
(* loop.                                                                   *)
(***************************************************************************)
NextSignal ==
    \/ ApiHhStart
    \/ HoneyHawkStep
    \/ HhSignalInStart
    \/ HhSignal
    \/ FileWatcherStep
    \/ ObsExit
    \/ NetworkMonitorStep
    \/ SshBindOk
    \/ SshLoop
    \/ SshAcceptTimeout
    \/ SshCloseListen
    \/ DnsStep

SpecSignal == Init /\ [][NextSignal]_vars

(***************************************************************************)
(* C31: when a shutdown signal has run HoneyHawk.stop() and start() has    *)
(* finished its set-up (the main thread is in, or past, the idle loop), no *)
(* detector is left running and running is false, so that the idle loop    *)
(* terminates.                                                             *)
(***************************************************************************)
C31_SignalDuringStartStopsAll ==
    (stops["net"] > 0 /\ pc["main"] \in {"hh_loop", "idle"}) =>
        /\ ~hh_running
        /\ ~fw_is_running
        /\ ~ObserverAlive
        /\ ~net_is_running

(***************************************************************************)
(* C32: every alert is written to both the alert log and the activity log; *)
(* whenever no log_alert call is in progress, the SECURITY_ALERT records   *)
(* of the activity log are the records of the alert log, in the same       *)
(* order, under every interleaving of the two detector threads.            *)
(***************************************************************************)
NoLogAlertInProgress == \A t \in Threads : la[t] = NoEntry

ActivityAlerts ==
    SelectSeq(activityLog, LAMBDA line : IsRecord(line) /\ IsAlert(line.value))

C32_ActivityMirrorsAlerts ==
    NoLogAlertInProgress => ActivityAlerts = alertsLog

(***************************************************************************)
(* SpecPartial: the alert log found at start-up ends with the partial      *)
(* record of an interrupted write; the caller logs alerts and reads them   *)
(* back.                                                                   *)
(***************************************************************************)
PartialLogs ==
    {stored \o <<Partial>> :
        stored \in UNION {[1..k -> {Dumps(a) : a \in StoredAlerts}] : k \in 0..1}}

InitPartial ==
    /\ alertsLog \in PartialLogs
    /\ now = ScanTime
    /\ InitProgram

NextPartial ==
    \/ Len(history) < MaxOps /\ \E sv \in StoreSeverities, m \in Messages : ApiLogAlert(sv, m)
    \/ LogAlertStep("main")
    \/ \E h \in Hours : ApiGetRecentAlerts(h)

SpecPartial == InitPartial /\ [][NextPartial]_vars

(***************************************************************************)
(* C33: with an alert log that ended in a partial record, every alert      *)
(* logged afterwards is stored as a line of its own and returned by        *)
(* get_recent_alerts: with no call in progress and a window that covers    *)
(* them, the last entries of the result are the alerts logged since, in    *)
(* call order.                                                             *)
(***************************************************************************)
LoggedSince == SelectSeq(history, IsAlert)

C33_RecordsAfterPartialKept ==
    pc["main"] = "idle" =>
        /\ \A i \in 1..Len(LoggedSince) :
              \E j \in 1..Len(alertsLog) : alertsLog[j] = Dumps(LoggedSince[i])
        /\ \A h \in Hours :
              WindowCovers(h) =>
                  LET got == GetRecentAlerts(h)
                  IN  /\ Len(got) >= Len(LoggedSince)
                      /\ SubSeq(got, Len(got) - Len(LoggedSince) + 1, Len(got)) = LoggedSince

====
